---- MODULE Spec2Model ----
(***************************************************************************)
(* Metastore update protocol of pkg/dataobj/metastore (Updater.Update).    *)
(*                                                                         *)
(* Two callers register data objects in per-window metastore objects held  *)
(* in an object store.  Each window is updated by a get / replay / append  *)
(* / flush / conditional-replace loop driven by a dskit backoff.           *)
(*                                                                         *)
(*   Spec, FairSpec  every caller has an Updater of its own                *)
(*   SharedSpec      both callers call Update on one Updater               *)
(*   PlanSpec        the window planner alone                              *)
(***************************************************************************)
EXTENDS Integers, Sequences, FiniteSets, TLC

\* ------------------------------------------------------------------ bounds

\* numRetries is counted up to RetryCap and saturates there.
RetryCap == 1
\* Transient faults (store I/O errors, decode/read/append/flush errors) the
\* environment injects in one behaviour.  Permanently failing windows and
\* cancelled contexts fail without consuming this budget.
MaxFaults == 1
\* The failed writes are counted up to CountCap and the counter saturates
\* there (the successful ones are at most one per window of a call).
CountCap == 2
\* The timestamps the window planner is run on alone are 0..MaxTime.
MaxTime == 13

\* --------------------------------------------------------------- constants

\* backoff.Config{MinBackoff, MaxBackoff} leaves MaxRetries at its zero value;
\* dskit's Backoff treats MaxRetries = 0 as "retry without limit".
MaxRetries == 0
\* buf := make([]streams.Stream, 100)
BatchLen == 100
\* Width of a metastore window, in model time units.
WindowLen == 2

\* The Updater instances, each in a process of its own.
Updaters == {"u1", "u2"}
\* Update calls made in one behaviour: one per instance, or two on one.
MaxCalls == Cardinality(Updaters)
\* The <<minTimestamp, maxTimestamp>> Update is called with: a single
\* instant, a range over two windows, a single instant of the second window.
Ranges == {<<0, 0>>, <<1, 2>>, <<2, 2>>}

Min(a, b) == IF a < b THEN a ELSE b

\* ------------------------------------------------------------------ errors

Nil == "nil"
ErrInit == "new builder"
ErrFetch == "fetch"
ErrUpload == "upload"
ErrConflict == "conflict"
ErrCanceled == "context canceled"
ErrCopy == "copying to local buffer"
ErrDecode == "creating object from buffer"
ErrReplay == "reading existing metastore version"
ErrAppend == "appending internal metadata stream"
ErrFlush == "flushing metastore builder"

\* ------------------------------------------------ record encoder / builder

labelNameStart == "__start__"
labelNameEnd == "__end__"
labelNamePath == "__path__"

\* strconv.FormatInt(n, 10): the decimal digits of n, most significant first.
RECURSIVE FormatInt(_)
FormatInt(n) ==
    IF n < 10 THEN <<n>> ELSE FormatInt(n \div 10) \o <<n % 10>>

\* labels.New sorts the labels by name: __end__ < __path__ < __start__.
LabelsNew(minTimestamp, maxTimestamp, dataobjPath) ==
    << <<labelNameEnd, FormatInt(maxTimestamp)>>,
       <<labelNamePath, dataobjPath>>,
       <<labelNameStart, FormatInt(minTimestamp)>> >>

\* The value of label `name` in a label set, or "" when it has none.
LabelValue(ls, name) ==
    IF \E i \in 1..Len(ls) : ls[i][1] = name
    THEN ls[CHOOSE i \in 1..Len(ls) : ls[i][1] = name][2]
    ELSE ""

\* The data object a user of the model registers.
DataObj(u) == IF u = "u1" THEN "obj-1" ELSE "obj-2"

\* Builder.Append: the builder buffers the stream's label set.
BuilderAppend(b, ls) == Append(b, ls)

\* Builder.Reset: the builder is emptied.
BuilderReset == <<>>

\* Builder.Flush: the encoded object, a sequence of sections: one streams
\* section with a row per appended stream and one logs section with the
\* streams' entries (a single empty line each).
BuilderFlush(b) ==
    << [kind |-> "streams", rows |-> b],
       [kind |-> "logs", rows |-> [i \in 1..Len(b) |-> ""]] >>

\* streams.CheckSection
CheckSection(section) == section.kind = "streams"

\* The bytes of an object nobody has written a record to.
NoBytes == <<>>

\* --------------------------------------------------------- window planner

\* time.Truncate to the window width.
Truncate(t) == (t \div WindowLen) * WindowLen

\* A planner that leaves out the window holding `end`.
RECURSIVE WindowsFromExclusive(_, _)
WindowsFromExclusive(w, last) ==
    IF w >= last THEN <<>> ELSE <<w>> \o WindowsFromExclusive(w + WindowLen, last)

\* iterStorePaths: the windows from the one holding `start` to the one
\* holding `end`, ascending; empty when end < start's window.
RECURSIVE WindowsFrom(_, _)
WindowsFrom(w, last) ==
    IF w > last THEN <<>> ELSE <<w>> \o WindowsFrom(w + WindowLen, last)

iterStorePaths(start, end) == WindowsFrom(Truncate(start), Truncate(end))

Windows == {Truncate(r[1]) : r \in Ranges} \cup {Truncate(r[2]) : r \in Ranges}

\* ----------------------------------------------- existing-content replayer

NoFault == [kind |-> "none", at |-> 0]

\* The rows of the streams sections of an encoded object, in order.
RECURSIVE StreamRows(_)
StreamRows(object) ==
    IF object = <<>> THEN <<>>
    ELSE (IF CheckSection(Head(object)) THEN Head(object).rows ELSE <<>>)
         \o StreamRows(Tail(object))

\* The faults the environment can inject into one run of the callback of
\* GetAndReplace, given the object handed to it (exists = a non-nil reader).
\*   copy     io.Copy fails
\*   decode   dataobj.FromReaderAt fails
\*   open     streams.Open fails
\*   readn    streamsReader.Read returns n > 0 and an error, after `at` rows
\*   read0    streamsReader.Read returns 0 and an error, after `at` rows
\*   rappend  Append of existing row number `at` fails
\*   append   Append of the new stream fails
\*   flush    Flush fails
CallbackFaults(exists, bytes) ==
    LET N == Len(StreamRows(bytes)) IN
    {[kind |-> "append", at |-> 0], [kind |-> "flush", at |-> 0]}
    \cup (IF exists THEN {[kind |-> "copy", at |-> 0]} ELSE {})
    \cup (IF exists /\ Len(bytes) > 0
          THEN {[kind |-> "decode", at |-> 0], [kind |-> "open", at |-> 0]}
               \cup {[kind |-> "read0", at |-> k] : k \in 0..N}
               \cup {[kind |-> "readn", at |-> k] : k \in 0..(N - 1)}
               \cup {[kind |-> "rappend", at |-> k] : k \in 1..N}
          ELSE {})

\* for _, stream := range buf[:n] { Append(stream.Labels.String()) } over
\* the rows from..to.
RECURSIVE AppendRows(_, _, _, _)
AppendRows(b, rows, from, to) ==
    IF from > to THEN b
    ELSE AppendRows(BuilderAppend(b, rows[from]), rows, from + 1, to)

\* The inner loop of readFromExisting over one section, from row `pos`:
\*   for n, err := Read(); n > 0; n, err = Read() { ... }
\* A Read that returns (0, err) ends the loop like the end of the section:
\* the loop condition n > 0 is tested before err is looked at.
RECURSIVE ReadRows(_, _, _, _)
ReadRows(rows, pos, b, fault) ==
    LET N == Len(rows)
        stop == IF fault.kind \in {"read0", "readn"} /\ fault.at >= pos /\ fault.at <= N
                THEN fault.at ELSE N
        n == Min(BatchLen, stop - pos)
    IN  IF fault.kind = "read0" /\ fault.at = pos
        THEN [err |-> Nil, b |-> b]
        ELSE IF fault.kind = "readn" /\ fault.at = pos /\ pos < N
        THEN [err |-> "reading streams", b |-> b]
        ELSE IF n = 0
        THEN [err |-> Nil, b |-> b]
        ELSE IF fault.kind = "rappend" /\ fault.at \in (pos + 1)..(pos + n)
        THEN [err |-> "appending streams",
              b |-> AppendRows(b, rows, pos + 1, fault.at - 1)]
        ELSE ReadRows(rows, pos + n, AppendRows(b, rows, pos + 1, pos + n), fault)

\* readFromExisting: every streams section of the object is opened and its
\* rows are appended to the builder; other sections are skipped.
RECURSIVE ReadSections(_, _, _, _)
ReadSections(object, i, b, fault) ==
    IF i > Len(object) THEN [err |-> Nil, b |-> b]
    ELSE IF ~CheckSection(object[i]) THEN ReadSections(object, i + 1, b, fault)
    ELSE IF fault.kind = "open" THEN [err |-> "opening section", b |-> b]
    ELSE LET r == ReadRows(object[i].rows, 0, b, fault)
         IN  IF r.err # Nil THEN r ELSE ReadSections(object, i + 1, r.b, fault)

readFromExisting(object, b, fault) == ReadSections(object, 1, b, fault)

\* A callback that replays whatever it was handed, also nothing.
HasContentAlways(bytes) == TRUE

\* if m.buf.Len() > 0 (line 296): there is existing content to replay.
HasContent(bytes) == Len(bytes) > 0

\* dataobj.FromReaderAt (line 298) returns an object: the bytes are an
\* encoded object (no bytes at all are none) and decoding does not fail.
Decodes(bytes, fault) == Len(bytes) > 0 /\ fault.kind # "decode"

\* The callback without line 294: the builder is replayed into as the last
\* attempt left it.
CallbackStartNoReset(b) == b

\* The state of m.metastoreBuilder when the replay starts: the callback resets
\* the builder it finds (line 294) before it replays the existing content.
CallbackStart(b) == BuilderReset

\* The callback Update hands to GetAndReplace (lines 282-330), run with
\* m.metastoreBuilder = b on the object read from the store: the error it
\* returns, the bytes it returns (m.buf) and the builder it leaves behind.
\* A failed io.Copy returns before the builder is reset.
Callback(b, exists, bytes, minTimestamp, maxTimestamp, dataobjPath, fault) ==
    LET copied == IF exists THEN bytes ELSE NoBytes
        reset == CallbackStart(b)
        replay == IF HasContent(copied)
                  THEN readFromExisting(copied, reset, fault)
                  ELSE [err |-> Nil, b |-> reset]
        ls == LabelsNew(minTimestamp, maxTimestamp, dataobjPath)
        appended == BuilderAppend(replay.b, ls)
    IN  IF exists /\ fault.kind = "copy"
        THEN [err |-> ErrCopy, buf |-> NoBytes, b |-> b, cause |-> "copy"]
        ELSE IF HasContent(copied) /\ ~Decodes(copied, fault)
        THEN [err |-> ErrDecode, buf |-> copied, b |-> reset, cause |-> "decode"]
        ELSE IF replay.err # Nil
        THEN [err |-> ErrReplay, buf |-> copied, b |-> replay.b, cause |-> replay.err]
        ELSE IF fault.kind = "append"
        THEN [err |-> ErrAppend, buf |-> copied, b |-> replay.b, cause |-> "append"]
        ELSE IF fault.kind = "flush"
        THEN [err |-> ErrFlush, buf |-> NoBytes, b |-> appended, cause |-> "flush"]
        ELSE [err |-> Nil, buf |-> BuilderFlush(appended), b |-> appended,
              cause |-> Nil]

\* ------------------------------------------------------------------- state

VARIABLES
    store,       \* window -> [exists, bytes, gen]: the object at the window's path
    down,        \* the windows whose fetch fails permanently
    faults,      \* transient faults injected so far
    pc,          \* updater -> "idle" | "attempt" | "replace" | "wait" | "done" | "panic"
    calls,       \* Update calls started so far
    rng,         \* updater -> <<minTimestamp, maxTimestamp>> of the current call
    todo,        \* updater -> the windows iterStorePaths has not finished, current first
    err,         \* updater -> the variable err of Update
    numRetries,  \* updater -> m.backoff.numRetries
    cancelled,   \* updater -> the caller's ctx is done
    once,        \* updater -> "fresh" | "ready" | "failed": builderOnce and what it left
    got,         \* updater -> generation of the object GetAndReplace read
    buf,         \* updater -> m.buf
    builder,     \* updater -> the streams buffered in m.metastoreBuilder
    fault,       \* updater -> the fault injected into the last run of the callback
    replaced,    \* updater -> the windows of the current call for which the store
                 \*            accepted a replacement holding the call's record
    gaveUp,      \* updater -> <<window, error>> of the windows of the current call
                 \*            whose retry loop ended without an accepted replace
    raced,       \* the windows on which the retry loops of two Update calls have
                 \*            run at the same time
    writes,      \* updater -> m.metrics: the writes counted with status success
                 \*            and with status failure
    inst,        \* caller -> the Updater it calls Update on
    store0       \* the store the model started from

vars == <<store, down, faults, pc, calls, rng, todo, err, numRetries, cancelled,
          once, got, buf, builder, fault, replaced, gaveUp, raced, writes, inst,
          store0>>

\* A record that was registered before the model starts.
Legacy == LabelsNew(0, 0, "obj-0")

Absent == [exists |-> FALSE, bytes |-> NoBytes, gen |-> 0]

\* What a window's path can hold at the start: nothing, an empty object, or
\* an object with one record.
InitialObjects ==
    {Absent,
     [exists |-> TRUE, bytes |-> NoBytes, gen |-> 0],
     [exists |-> TRUE, bytes |-> BuilderFlush(<<Legacy>>), gen |-> 0]}

\* The stores the model starts from: every window's path holds the same.
InitialStores == {[w \in Windows |-> o] : o \in InitialObjects}

\* Everything but which Updater each caller uses.
InitFields ==
    /\ store \in InitialStores
    /\ store0 = store
    /\ writes = [u \in Updaters |-> [success |-> 0, failure |-> 0]]
    /\ down \in SUBSET Windows
    /\ faults = 0
    /\ pc = [u \in Updaters |-> "idle"]
    /\ calls = 0
    /\ rng = [u \in Updaters |-> <<0, 0>>]
    /\ todo = [u \in Updaters |-> <<>>]
    /\ err = [u \in Updaters |-> Nil]
    /\ numRetries = [u \in Updaters |-> 0]
    /\ cancelled = [u \in Updaters |-> FALSE]
    /\ once = [u \in Updaters |-> "fresh"]
    /\ got = [u \in Updaters |-> 0]
    /\ buf = [u \in Updaters |-> NoBytes]
    /\ builder = [u \in Updaters |-> BuilderReset]
    /\ fault = [u \in Updaters |-> NoFault]
    /\ replaced = [u \in Updaters |-> {}]
    /\ gaveUp = [u \in Updaters |-> <<>>]
    /\ raced = {}

\* NewUpdater, once per caller.
Init ==
    /\ InitFields
    /\ inst = [u \in Updaters |-> u]

\* NewUpdater, once: every caller is handed the Updater of u1.
InitShared ==
    /\ InitFields
    /\ inst = [u \in Updaters |-> "u1"]

\* ----------------------------------------------------------------- backoff

\* Ongoing of a backoff that gives up after one retry (MaxRetries: 1).
OngoingOneRetry(n) == n < 1

\* Backoff.Ongoing, for the backoff NewUpdater builds: its context is
\* context.TODO(), which is never done, and MaxRetries is 0.
Ongoing(n) == MaxRetries = 0 \/ n < MaxRetries

\* metastoreMetrics.incMetastoreWrites(statusFailure): the counter goes up by
\* one (the model stops counting at CountCap).
Inc(n) == Min(n + 1, CountCap)

\* A loop that goes into the next window with the retries already counted.
BackoffResetKeeps(n) == n

\* m.backoff.Reset() (line 280): the retry count starts again at zero.
BackoffReset(n) == 0

\* Backoff.Wait: the retry count goes up (the model stops counting at
\* RetryCap).
WaitCount(n) == Min(n + 1, RetryCap)

\* The rest of the range loop once the window at Head(td) is left: the
\* windows still to do, starting with the first one whose retry loop is
\* entered after m.backoff.Reset().
RECURSIVE Remaining(_)
Remaining(td) ==
    IF Tail(td) = <<>> THEN <<>>
    ELSE IF Ongoing(0) THEN Tail(td)
    ELSE Remaining(Tail(td))

\* ----------------------------------------------------------------- actions

Running(u) == pc[u] \in {"attempt", "replace", "wait"}

\* The windows on which, with program counters p and iterators t, the retry
\* loops of two Update calls are running.
Racing(p, t) ==
    {w \in Windows :
        \E u \in Updaters, v \in Updaters :
            /\ u # v
            /\ p[u] \in {"attempt", "replace", "wait"} /\ Head(t[u]) = w
            /\ p[v] \in {"attempt", "replace", "wait"} /\ Head(t[v]) = w}

\* The retry loop run on the last window still to do.
CurrentLast(u) == todo[u][Len(todo[u])]

\* The window whose retry loop updater u is in.
Current(u) == Head(todo[u])

\* The windows of updater u's current call, and the record it registers.
Plan(u) == iterStorePaths(rng[u][1], rng[u][2])
Rec(u) == LabelsNew(rng[u][1], rng[u][2], DataObj(u))

\* Whether r is one of the records of an encoded object.
Holds(bytes, r) == \E i \in 1..Len(StreamRows(bytes)) : StreamRows(bytes)[i] = r

\* The retry loop of the current window ends (break, or Ongoing is false) with
\* err = e: the builder is reset (line 341) and the range loop goes on to the
\* next window, or Update returns err (line 343).
Leave(u, e) ==
    LET rest == Remaining(todo[u]) IN
    /\ err' = [err EXCEPT ![u] = e]
    /\ builder' = [builder EXCEPT ![inst[u]] = BuilderReset]
    /\ todo' = [todo EXCEPT ![u] = rest]
    /\ numRetries' = [numRetries EXCEPT ![inst[u]] =
                         IF rest = <<>> THEN @ ELSE BackoffReset(@)]
    /\ pc' = [pc EXCEPT ![u] = IF rest = <<>> THEN "done" ELSE "attempt"]
    /\ got' = [got EXCEPT ![u] = 0]
    /\ fault' = [fault EXCEPT ![u] = NoFault]
    /\ gaveUp' = [gaveUp EXCEPT ![u] =
                     IF e = Nil THEN @ ELSE Append(@, <<Current(u), e>>)]
    /\ raced' = raced \cup Racing(pc', todo')

\* The failure branch without line 337: the failed attempt is not counted.
FailedUncounted(u, e) ==
    /\ err' = [err EXCEPT ![u] = e]
    /\ writes' = writes
    /\ pc' = [pc EXCEPT ![u] = "wait"]
    /\ got' = [got EXCEPT ![u] = 0]

\* GetAndReplace returned the error e (lines 336-338): err is set, the failure
\* is counted and Update goes into m.backoff.Wait().
Failed(u, e) ==
    /\ err' = [err EXCEPT ![u] = e]
    /\ writes' = [writes EXCEPT ![inst[u]].failure = Inc(@)]
    /\ pc' = [pc EXCEPT ![u] = "wait"]
    /\ got' = [got EXCEPT ![u] = 0]

\* Update is called (lines 267-281) and logsobj.NewBuilder fails inside
\* builderOnce.Do: Update returns the error; the Once is spent and
\* m.metastoreBuilder and m.buf stay nil.
UpdateInitFails(u) ==
    /\ pc[u] \in {"idle", "done"}
    /\ calls < MaxCalls
    /\ once[inst[u]] = "fresh"
    /\ faults < MaxFaults
    /\ faults' = faults + 1
    /\ \E r \in Ranges : rng' = [rng EXCEPT ![u] = r]
    /\ once' = [once EXCEPT ![inst[u]] = "failed"]
    /\ calls' = calls + 1
    /\ err' = [err EXCEPT ![u] = ErrInit]
    /\ pc' = [pc EXCEPT ![u] = "done"]
    /\ cancelled' = [cancelled EXCEPT ![u] = FALSE]
    /\ replaced' = [replaced EXCEPT ![u] = {}]
    /\ gaveUp' = [gaveUp EXCEPT ![u] = <<>>]
    /\ todo' = [todo EXCEPT ![u] = <<>>]
    /\ fault' = [fault EXCEPT ![u] = NoFault]
    /\ UNCHANGED <<store, down, numRetries, got, buf, builder, raced, writes>>
    /\ UNCHANGED <<inst, store0>>

\* Update is called (lines 267-281): initBuilder returns nil (the builder is
\* created by the first call; a later call finds the Once spent), the window
\* iterator is started and the backoff is reset for the first window.
Update(u) ==
    /\ pc[u] \in {"idle", "done"}
    /\ calls < MaxCalls
    /\ \E r \in Ranges :
        /\ rng' = [rng EXCEPT ![u] = r]
        /\ LET plan == iterStorePaths(r[1], r[2])
               first == IF Ongoing(0) THEN plan ELSE Remaining(plan)
           IN  /\ todo' = [todo EXCEPT ![u] = first]
               /\ pc' = [pc EXCEPT ![u] = IF first = <<>> THEN "done" ELSE "attempt"]
    /\ once' = [once EXCEPT ![inst[u]] = IF @ = "fresh" THEN "ready" ELSE @]
    /\ calls' = calls + 1
    /\ err' = [err EXCEPT ![u] = Nil]
    /\ numRetries' = [numRetries EXCEPT ![inst[u]] = BackoffReset(@)]
    /\ cancelled' = [cancelled EXCEPT ![u] = FALSE]
    /\ replaced' = [replaced EXCEPT ![u] = {}]
    /\ gaveUp' = [gaveUp EXCEPT ![u] = <<>>]
    /\ fault' = [fault EXCEPT ![u] = NoFault]
    /\ raced' = raced \cup Racing(pc', todo')
    /\ UNCHANGED <<store, down, faults, got, buf, builder, writes>>
    /\ UNCHANGED <<inst, store0>>

\* The caller's context is cancelled while Update runs.
Cancel(u) ==
    /\ Running(u)
    /\ ~cancelled[u]
    /\ cancelled' = [cancelled EXCEPT ![u] = TRUE]
    /\ UNCHANGED <<store, down, faults, pc, calls, rng, todo, err, numRetries,
                   once, got, buf, builder, fault, replaced, gaveUp, raced, writes>>
    /\ UNCHANGED <<inst, store0>>

\* GetAndReplace (line 282) with a context that is done: the store returns
\* the context's error and the callback is not run.
GetCanceled(u) ==
    /\ pc[u] = "attempt"
    /\ cancelled[u]
    /\ Failed(u, ErrCanceled)
    /\ UNCHANGED <<store, down, faults, calls, rng, todo, numRetries, cancelled,
                   once, buf, builder, fault, replaced, gaveUp, raced>>
    /\ UNCHANGED <<inst, store0>>

\* GetAndReplace (line 282): reading the window's object fails, permanently
\* (the window is down) or by a transient fault; the callback is not run.
GetFails(u) ==
    /\ pc[u] = "attempt"
    /\ ~cancelled[u]
    /\ \/ Current(u) \in down /\ faults' = faults
       \/ Current(u) \notin down /\ faults < MaxFaults /\ faults' = faults + 1
    /\ Failed(u, ErrFetch)
    /\ UNCHANGED <<store, down, calls, rng, todo, numRetries, cancelled,
                   once, buf, builder, fault, replaced, gaveUp, raced>>
    /\ UNCHANGED <<inst, store0>>

\* GetAndReplace (line 282) reads the window's object and runs the callback
\* (lines 282-330) on it.  When the callback returns bytes the replacement is
\* ready to be submitted; when it returns an error GetAndReplace returns it.
GetAndBuild(u) ==
    /\ pc[u] = "attempt"
    /\ ~cancelled[u]
    /\ Current(u) \notin down
    /\ once[inst[u]] = "ready"
    /\ LET obj == store[Current(u)] IN
       \E f \in {NoFault} \cup (IF faults < MaxFaults
                                THEN CallbackFaults(obj.exists, obj.bytes) ELSE {}) :
         LET r == Callback(builder[inst[u]], obj.exists, obj.bytes,
                           rng[u][1], rng[u][2], DataObj(u), f) IN
         /\ faults' = IF f = NoFault THEN faults ELSE faults + 1
         /\ fault' = [fault EXCEPT ![u] = f]
         /\ buf' = [buf EXCEPT ![inst[u]] = r.buf]
         /\ builder' = [builder EXCEPT ![inst[u]] = r.b]
         /\ IF r.err = Nil
            THEN /\ got' = [got EXCEPT ![u] = obj.gen]
                 /\ pc' = [pc EXCEPT ![u] = "replace"]
                 /\ err' = err
                 /\ writes' = writes
            ELSE Failed(u, r.err)
    /\ UNCHANGED <<store, down, calls, rng, todo, numRetries, cancelled, once,
                   replaced, gaveUp, raced>>
    /\ UNCHANGED <<inst, store0>>

\* GetAndReplace (line 282) runs the callback on an Updater whose builder was
\* never created: m.buf is nil and m.buf.Reset() (line 283) panics.
GetPanics(u) ==
    /\ pc[u] = "attempt"
    /\ ~cancelled[u]
    /\ Current(u) \notin down
    /\ once[inst[u]] = "failed"
    /\ pc' = [pc EXCEPT ![u] = "panic"]
    /\ UNCHANGED <<store, down, faults, calls, rng, todo, err, numRetries,
                   cancelled, once, got, buf, builder, fault, replaced, gaveUp, raced,
                   writes>>
    /\ UNCHANGED <<inst, store0>>

\* A replace that is not atomic: the upload fails after the store has taken
\* the bytes.
ReplaceFailsAfterWrite(u) ==
    /\ pc[u] = "replace"
    /\ ~cancelled[u]
    /\ faults < MaxFaults
    /\ faults' = faults + 1
    /\ store' = [store EXCEPT ![Current(u)] =
                    [exists |-> TRUE, bytes |-> buf[inst[u]], gen |-> @.gen + 1]]
    /\ Failed(u, ErrUpload)
    /\ UNCHANGED <<down, calls, rng, todo, numRetries, cancelled, once,
                   buf, builder, fault, replaced, gaveUp, raced>>
    /\ UNCHANGED <<inst, store0>>

\* The conditional replace of GetAndReplace fails: the context is done, the
\* upload fails, or the object is no longer the generation that was read.
ReplaceFails(u) ==
    /\ pc[u] = "replace"
    /\ \/ cancelled[u] /\ Failed(u, ErrCanceled) /\ faults' = faults
       \/ /\ ~cancelled[u]
          /\ faults < MaxFaults
          /\ faults' = faults + 1
          /\ Failed(u, ErrUpload)
       \/ /\ ~cancelled[u]
          /\ store[Current(u)].gen # got[u]
          /\ faults' = faults
          /\ Failed(u, ErrConflict)
    /\ UNCHANGED <<store, down, calls, rng, todo, numRetries, cancelled, once,
                   buf, builder, fault, replaced, gaveUp, raced>>
    /\ UNCHANGED <<inst, store0>>

\* The conditional replace of GetAndReplace is accepted: the object is still
\* the generation that was read.  GetAndReplace returns nil, the success is
\* counted and the retry loop is left by break (lines 331-335).
Replace(u) ==
    /\ pc[u] = "replace"
    /\ ~cancelled[u]
    /\ store[Current(u)].gen = got[u]
    /\ store' = [store EXCEPT ![Current(u)] =
                    [exists |-> TRUE, bytes |-> buf[inst[u]], gen |-> @.gen + 1]]
    /\ replaced' = [replaced EXCEPT ![u] =
                       IF Holds(buf[inst[u]], Rec(u)) THEN @ \cup {Current(u)} ELSE @]
    /\ writes' = [writes EXCEPT ![inst[u]].success = @ + 1]
    /\ Leave(u, Nil)
    /\ UNCHANGED <<down, faults, calls, rng, cancelled, once, buf>>
    /\ UNCHANGED <<inst, store0>>

\* m.backoff.Wait() (line 338) returns and the loop condition
\* m.backoff.Ongoing() (line 281) is evaluated.
Wait(u) ==
    /\ pc[u] = "wait"
    /\ LET n == WaitCount(numRetries[inst[u]]) IN
       IF Ongoing(n)
       THEN /\ numRetries' = [numRetries EXCEPT ![inst[u]] = n]
            /\ pc' = [pc EXCEPT ![u] = "attempt"]
            /\ UNCHANGED <<err, builder, todo, got, fault, gaveUp, raced>>
       ELSE Leave(u, err[u])
    /\ UNCHANGED <<store, down, faults, calls, rng, cancelled, once, buf, replaced,
                   writes>>
    /\ UNCHANGED <<inst, store0>>

Step(u) ==
    \/ GetCanceled(u)
    \/ GetFails(u)
    \/ GetAndBuild(u)
    \/ GetPanics(u)
    \/ ReplaceFails(u)
    \/ Replace(u)
    \/ Wait(u)

Next ==
    \E u \in Updaters :
        \/ UpdateInitFails(u)
        \/ Update(u)
        \/ Cancel(u)
        \/ Step(u)

\* Update is called with a range minTimestamp <= maxTimestamp and creates
\* the window iterator (line 279); nothing is read from it yet.
PlanRange(u) ==
    /\ pc[u] = "idle"
    /\ calls < MaxCalls
    /\ calls' = calls + 1
    /\ \E minTimestamp \in 0..MaxTime, maxTimestamp \in 0..MaxTime :
        /\ minTimestamp <= maxTimestamp
        /\ rng' = [rng EXCEPT ![u] = <<minTimestamp, maxTimestamp>>]
        /\ todo' = [todo EXCEPT ![u] = iterStorePaths(minTimestamp, maxTimestamp)]
    /\ UNCHANGED <<store, down, faults, pc, err, numRetries, cancelled, once,
                   got, buf, builder, fault, replaced, gaveUp, raced, writes>>
    /\ UNCHANGED <<inst, store0>>

NextPlan == \E u \in Updaters : PlanRange(u)

\* The window planner alone, on every range of 0..MaxTime.
PlanSpec == Init /\ [][NextPlan]_vars

\* Every caller calls Update on an Updater of its own.
Spec == Init /\ [][Next]_vars

\* Both callers call Update on one Updater, from goroutines of their own.
SharedSpec == InitShared /\ [][Next]_vars

\* The scheduler runs every Update call that can take a step.
FairSpec == Spec /\ \A u \in Updaters : WF_vars(Step(u))

\* ------------------------------------------------------------------ claims

\* The records in window w's object in store st, in order.
RowsOf(st, w) == StreamRows(st[w].bytes)

\* How many times x occurs in seq.
Count(seq, x) == Cardinality({i \in 1..Len(seq) : seq[i] = x})

\* w is one of the windows of updater u's current call.
InPlan(u, w) == \E i \in 1..Len(Plan(u)) : Plan(u)[i] = w

\* Updater u is in the retry loop of a window whose fetch fails permanently.
OnDownWindow(u) ==
    IF Running(u) /\ todo[u] # <<>> THEN Current(u) \in down ELSE FALSE

\* Updater u has started, with a working builder, a call over two windows.
TwoWindowCall(u) == Running(u) /\ once[u] = "ready" /\ Len(Plan(u)) = 2

FirstWindow(u) == Plan(u)[1]
LastWindow(u) == Plan(u)[Len(Plan(u))]

\* C1. Convergence under contention: once the Update calls of two Updater
\* instances that raced on window w have both returned nil, w's object holds
\* the record of each of them.
C1_Convergence ==
    \A u \in Updaters, v \in Updaters, w \in Windows :
        ( /\ u # v
          /\ w \in raced
          /\ pc[u] = "done" /\ err[u] = Nil /\ InPlan(u, w)
          /\ pc[v] = "done" /\ err[v] = Nil /\ InPlan(v, w) )
        => Holds(store[w].bytes, Rec(u)) /\ Holds(store[w].bytes, Rec(v))

\* C2. Monotonic growth: no step removes a record from a window's object;
\* every record of the object is in it after the step at least as often as
\* before.
C2_MonotonicGrowth ==
    [][\A w \in Windows :
          \A i \in 1..Len(RowsOf(store, w)) :
              Count(RowsOf(store, w), RowsOf(store, w)[i])
                  <= Count(RowsOf(store', w), RowsOf(store, w)[i])]_vars

\* C3. Bounded retry: an Update call (on an Updater whose builder was
\* created) that is in the retry loop of a window whose every attempt fails
\* eventually returns.
C3_BoundedRetry ==
    \A u \in Updaters :
        (OnDownWindow(u) /\ once[u] = "ready") ~> (pc[u] = "done")

\* C4. Cancellation: once a store call has returned the cancellation error of
\* the caller's context, Update issues no further store call; it is leaving
\* the backoff wait or has returned.
C4_Cancellation ==
    \A u \in Updaters :
        (cancelled[u] /\ err[u] = ErrCanceled) => pc[u] \in {"wait", "done"}

\* C5. Serializable writes per window: whenever a window's object changes,
\* the new content is the content stored immediately before followed by the
\* one new record of the call whose replace was accepted.
C5_SerializableWrites ==
    [][\A w \in Windows :
          store'[w] # store[w] =>
              \E u \in Updaters :
                  /\ pc[u] = "replace"
                  /\ pc'[u] # "replace"
                  /\ Current(u) = w
                  /\ RowsOf(store', w) = Append(RowsOf(store, w), Rec(u))]_vars

\* C6. Partial-failure isolation: an uncancelled Update call over windows
\* W1, W2 where only W2's fetch fails permanently eventually returns W2's
\* error, with its record applied to W1.
C6_LaterWindowFails ==
    \A u \in Updaters :
        ([] ~cancelled[u]) =>
            ( ( /\ TwoWindowCall(u)
                /\ FirstWindow(u) \notin down
                /\ LastWindow(u) \in down )
              ~> ( /\ pc[u] = "done"
                   /\ err[u] = ErrFetch
                   /\ FirstWindow(u) \in replaced[u] ) )

\* C7. A failing window does not block later ones: an uncancelled Update
\* call over windows W1, W2 where only W1's fetch fails permanently
\* eventually registers its record in W2.
C7_EarlierWindowFails ==
    \A u \in Updaters :
        ([] ~cancelled[u]) =>
            ( ( /\ TwoWindowCall(u)
                /\ FirstWindow(u) \in down
                /\ LastWindow(u) \notin down )
              ~> (LastWindow(u) \in replaced[u]) )

C9_ReplayErrorsFatal ==
    \A u \in Updaters :
        fault[u].kind \in {"decode", "open", "readn", "read0", "rappend"}
            => pc[u] # "replace"

\* C10. Replay then encode yields N+1: the object an attempt submits holds
\* the N records of the object it read, in their order and with their start,
\* end and path labels, followed by the new record.
C10_ReplayYieldsNPlusOne ==
    [][\A u \in Updaters :
          (pc[u] = "attempt" /\ pc'[u] = "replace") =>
              LET old == RowsOf(store, Current(u))
                  new == StreamRows(buf'[u])
              IN  /\ Len(new) = Len(old) + 1
                  /\ new[Len(new)] = Rec(u)
                  /\ \A i \in 1..Len(old) :
                        \A name \in {labelNameStart, labelNameEnd, labelNamePath} :
                            LabelValue(new[i], name) = LabelValue(old[i], name)]_vars

\* The records the replay of an attempt took from the object it read: all of
\* them, or those before the read that returned an error with zero records.
ReplayedRows(old, f) ==
    SubSeq(old, 1, IF f.kind = "read0" THEN f.at ELSE Len(old))

C12_FailedAttemptLeavesStore ==
    [][/\ \A u \in Updaters :
             (pc[u] \in {"attempt", "replace"} /\ pc'[u] = "wait") => store' = store
       /\ \A w \in Windows :
             store'[w] # store[w] =>
                 store'[w].bytes = BuilderFlush(RowsOf(store', w))]_vars

\* An attempt on a window whose object holds a record has failed in the
\* flush, after the replay and the append, and the window's object is the one
\* the model started from.
C12_Witness ==
    \E u \in Updaters :
        /\ pc[u] = "wait"
        /\ err[u] = ErrFlush
        /\ Len(RowsOf(store, Current(u))) > 0
        /\ Len(builder[u]) > 1
        /\ store[Current(u)] = store0[Current(u)]

\* C13. Registration reaches every window of the range and only those: when
\* an Update call has returned nil, every window of its plan holds a record
\* with the call's path and its full range as start and end, every record
\* the window's object started with is still in it, and (the call being the
\* only one made so far) the windows outside the plan are as they started.
C13_RegistrationReachesPlan ==
    \A u \in Updaters :
        (pc[u] = "done" /\ err[u] = Nil) =>
            \A w \in Windows :
                IF InPlan(u, w)
                THEN /\ \E i \in 1..Len(RowsOf(store, w)) :
                           /\ LabelValue(RowsOf(store, w)[i], labelNamePath) = DataObj(u)
                           /\ LabelValue(RowsOf(store, w)[i], labelNameStart)
                                  = FormatInt(rng[u][1])
                           /\ LabelValue(RowsOf(store, w)[i], labelNameEnd)
                                  = FormatInt(rng[u][2])
                     /\ \A i \in 1..Len(RowsOf(store0, w)) :
                           Count(RowsOf(store0, w), RowsOf(store0, w)[i])
                               <= Count(RowsOf(store, w), RowsOf(store0, w)[i])
                ELSE calls = 1 => store[w] = store0[w]

\* The start of every bucket of the timestamps 0..MaxTime.
Buckets == {k * WindowLen : k \in 0..(MaxTime \div WindowLen)}

\* C14. Window planner: for a range with minTimestamp <= maxTimestamp the
\* planned windows are in ascending order (so pairwise distinct) and are
\* exactly the buckets that overlap [minTimestamp, maxTimestamp], both ends
\* included; a range of a single instant has exactly one window.
C14_WindowPlanner ==
    [][\A u \in Updaters :
          (rng'[u] # rng[u] \/ todo'[u] # todo[u]) =>
              LET plan == todo'[u]
                  minTimestamp == rng'[u][1]
                  maxTimestamp == rng'[u][2]
              IN  /\ \A i \in 1..Len(plan), j \in 1..Len(plan) :
                        i < j => plan[i] < plan[j]
                  /\ {plan[i] : i \in 1..Len(plan)}
                         = {w \in Buckets :
                               w <= maxTimestamp /\ w + WindowLen > minTimestamp}
                  /\ minTimestamp = maxTimestamp => Len(plan) = 1]_vars

\* The plan of a range that starts and ends inside buckets, three or more
\* buckets apart.
C14_Witness ==
    \E u \in Updaters :
        /\ Len(todo[u]) >= 3
        /\ rng[u][1] # Truncate(rng[u][1])
        /\ rng[u][2] # Truncate(rng[u][2])

\* C15. First write to a window: an attempt whose callback is handed no
\* object, or an object without bytes, does not fail in the replay (it is
\* skipped); unless the append or the flush of the new record (or the copy)
\* fails, it submits an object whose only record is the new registration.
C15_FirstWrite ==
    [][\A u \in Updaters :
          ( /\ pc[u] = "attempt"
            /\ Len(store[Current(u)].bytes) = 0
            /\ \/ pc'[u] = "replace"
               \/ pc'[u] = "wait" /\ err'[u] \notin {ErrFetch, ErrCanceled} )
          => /\ err'[u] \notin {ErrDecode, ErrReplay}
             /\ fault'[u] = NoFault => pc'[u] = "replace"
             /\ pc'[u] = "replace" => StreamRows(buf'[u]) = <<Rec(u)>>]_vars

\* An attempt that was handed an object without bytes has built a
\* replacement with the one new record.
C15_Witness ==
    \E u \in Updaters :
        /\ pc[u] = "replace"
        /\ store[Current(u)] = [exists |-> TRUE, bytes |-> NoBytes, gen |-> got[u]]
        /\ StreamRows(buf[u]) = <<Rec(u)>>

\* The windows of updater u's current call whose retry loop has ended.
Ended(u) == replaced[u] \cup {gaveUp[u][i][1] : i \in 1..Len(gaveUp[u])}

\* Updater u is in the retry loop of window number k of its plan: the
\* windows before it have ended, in the plan's order, and it and the windows
\* after it have not.
InOrder(u) ==
    Running(u) =>
        LET plan == Plan(u)
            k == Len(plan) - Len(todo[u]) + 1
        IN  /\ k >= 1
            /\ todo[u] = SubSeq(plan, k, Len(plan))
            /\ Ended(u) = {plan[i] : i \in 1..(k - 1)}

\* C16. Windows are processed one at a time, in the planner's order: a call
\* is in the retry loop of exactly one window, every earlier window of the
\* plan has ended and no later one has been started; the call writes only
\* the object of that window, and goes on to the next window only when the
\* loop has ended (a replace was accepted, or the backoff gave up).
C16_WindowsInOrder ==
    [][\A u \in Updaters :
          /\ InOrder(u)
          /\ (Running(u) /\ pc'[u] # pc[u]) =>
                /\ \A w \in Windows :
                      store'[w] # store[w] =>
                          w = Plan(u)[Len(Plan(u)) - Len(todo[u]) + 1]
                /\ todo'[u] # todo[u] =>
                      /\ todo'[u] = Tail(todo[u]) \/ ~Running(u)'
                      /\ \/ pc[u] = "replace" /\ store'[Head(todo[u])] # store[Head(todo[u])]
                         \/ pc[u] = "wait" /\ ~Ongoing(WaitCount(numRetries[u]))
          /\ pc'[u] = pc[u] => todo'[u] = todo[u]]_vars

\* A call over two windows is in the retry loop of its second window, after
\* the store accepted its replacement of the first.
C16_Witness ==
    \E u \in Updaters :
        /\ pc[u] = "replace"
        /\ Len(Plan(u)) = 2
        /\ todo[u] = <<LastWindow(u)>>
        /\ replaced[u] = {FirstWindow(u)}

\* Caller u's step runs the callback of GetAndReplace: m.buf and the builder
\* are reset, replayed into, appended to and flushed.
RunsCallback(u) ==
    /\ pc[u] = "attempt"
    /\ \/ pc'[u] = "replace"
       \/ pc'[u] = "wait" /\ err'[u] \notin {ErrFetch, ErrCanceled}

\* C17. Builder state is never shared across concurrent update calls: while
\* an attempt of one call on an Updater is between the reset of its buffer
\* and the store having consumed the bytes it returned, no other call on the
\* same Updater runs its callback or changes the builder or the byte buffer.
C17_BuilderNotShared ==
    [][\A u \in Updaters, v \in Updaters :
          (u # v /\ inst[u] = inst[v] /\ pc[v] = "replace" /\ pc'[v] = "replace")
          => /\ ~RunsCallback(u)
             /\ buf'[inst[v]] = buf[inst[v]]
             /\ builder'[inst[v]] = builder[inst[v]]]_vars

\* C18. Retry state is reset per window: whenever a call enters the retry
\* loop of a window (the first window of the call, or the next one after a
\* loop has ended) the backoff's retry count is zero and the backoff is
\* ongoing, whatever was spent on an earlier window or an earlier call.
C18_RetryResetPerWindow ==
    [][\A u \in Updaters :
          ( /\ pc'[u] = "attempt"
            /\ \/ pc[u] \in {"idle", "done"}
               \/ todo'[u] # todo[u] )
          => /\ numRetries'[inst[u]] = 0
             /\ Ongoing(numRetries'[inst[u]])]_vars

\* The first call made is at the first attempt on its second window, with
\* failed attempts counted on its first window.
C18_Witness ==
    \E u \in Updaters :
        /\ calls = 1
        /\ pc[u] = "attempt"
        /\ Len(Plan(u)) = 2
        /\ todo[u] = <<LastWindow(u)>>
        /\ writes[inst[u]].failure > 0
        /\ numRetries[inst[u]] = 0

\* The sum of f over the updaters.
RECURSIVE SumOver(_, _)
SumOver(f, S) ==
    IF S = {} THEN 0
    ELSE LET x == CHOOSE y \in S : TRUE IN f[x] + SumOver(f, S \ {x})

\* C19. Write counters: the success counters add up to the number of
\* replaces the store has accepted; a step in which the store accepts a
\* replace adds exactly one to the success counter of the caller's Updater, a
\* step that ends an attempt in error adds exactly one to its failure
\* counter (up to CountCap), once per failed attempt, and nothing else
\* changes a counter.
C19_WriteCounters ==
    [][/\ SumOver([u \in Updaters |-> writes'[u].success], Updaters)
            = SumOver([w \in Windows |-> store'[w].gen], Windows)
       /\ \A u \in Updaters :
            LET accepted == pc[u] = "replace" /\ pc'[u] # pc[u] /\ store' # store
                failed == pc[u] \in {"attempt", "replace"} /\ pc'[u] = "wait"
                others == \A v \in Updaters :
                              v # u => pc'[v] = pc[v] /\ cancelled'[v] = cancelled[v]
            IN  others =>
                  /\ writes'[inst[u]].success
                         = writes[inst[u]].success + (IF accepted THEN 1 ELSE 0)
                  /\ writes'[inst[u]].failure
                         = Min(writes[inst[u]].failure + (IF failed THEN 1 ELSE 0),
                               CountCap)]_vars

\* An Updater whose call over one window has returned nil has counted two
\* failed attempts and one accepted replace.
C19_Witness ==
    \E u \in Updaters :
        /\ pc[u] = "done"
        /\ err[u] = Nil
        /\ Len(Plan(u)) = 1
        /\ writes[inst[u]] = [success |-> 1, failure |-> 2]

\* C20. Progress under contention: in a behaviour in which no window's
\* fetch fails, nothing but the conditional replace ever fails (no fault is
\* injected) and the caller's context is not cancelled, every Update call
\* that is running eventually returns nil with its record in the object of
\* every window of its plan.
C20_ProgressUnderContention ==
    \A u \in Updaters :
        ([](faults = 0 /\ down = {} /\ ~cancelled[u])) =>
            ( Running(u)
              ~> ( /\ pc[u] = "done"
                   /\ err[u] = Nil
                   /\ \A w \in Windows :
                         InPlan(u, w) => Holds(store[w].bytes, Rec(u)) ) )

\* With no fault injected, no window down and nobody cancelled, a call has
\* returned nil after it had lost a conditional replace on its last window,
\* and its record is in every window of its plan.
C20_Witness ==
    \E u \in Updaters :
        /\ faults = 0 /\ down = {}
        /\ \A v \in Updaters : ~cancelled[v]
        /\ pc[u] = "done"
        /\ err[u] = Nil
        /\ numRetries[inst[u]] > 0
        /\ writes[inst[u]].failure > 0
        /\ \A w \in Windows : InPlan(u, w) => Holds(store[w].bytes, Rec(u))

\* C21. Builder initialisation failure is sticky: on an Updater whose
\* builder could not be created no Update call is in window processing
\* (no store operation is issued, nothing panics), and a call that has
\* returned has returned an error.
C21_InitFailureSticky ==
    \A u \in Updaters :
        once[inst[u]] = "failed" =>
            /\ pc[u] \in {"idle", "done"}
            /\ pc[u] = "done" => err[u] # Nil

====
